---- MODULE Spec2Model ----
(***************************************************************************)
(* PostResolver (src/server/resolvers/post.resolver.ts): the queries post  *)
(* and Posts and the mutations createPost, deletePost and updatePost over  *)
(* the store of Users, Types, Drafts and Posts.                            *)
(*                                                                         *)
(* Strings are TLA+ strings (Len is their length).  An optional value that *)
(* is absent (undefined or null) is NULL; an optional number is a sequence *)
(* of at most one number.  An entity reference (writer, type) is the       *)
(* identifier of the row: the entity manager's identity map hands out one  *)
(* object per row, so the resolver's !== on entities compares rows.        *)
(*                                                                         *)
(* The store steps that write (persist/remove followed by flush, flush)    *)
(* may throw; which step throws is the environment's choice (fault).       *)
(* Reads are answered by the store.                                        *)
(***************************************************************************)
EXTENDS Integers, Sequences, FiniteSets, TLC

VARIABLES
  drafts,   \* the Draft table: a set of Draft records
  posts,    \* the Post table: the sequence of Post records in store order
  nextId,   \* the number of the next fresh Post identifier
  origin,   \* history: Post id -> the Draft record it was constructed from
  deleted,  \* history: the ids of the Posts removed by deletePost
  last,     \* the last completed call: operation, arguments, outcome
  reqs      \* the createPost calls in flight, one record per request

vars == <<drafts, posts, nextId, origin, deleted, last, reqs>>

----------------------------------------------------------------------------
\* Bounds of the model

\* Posts ever persisted (createPost stops being called after that many).
MaxPosts == 2
\* Longest Post table the paging specification starts from.
MaxListLen == 12

----------------------------------------------------------------------------
\* Program constants

TitleMin == 1
TitleMax == 255
SlugMin == 1
SlugMax == 20
DefaultLimit == 10
DefaultOffset == 0

----------------------------------------------------------------------------
\* Values

\* undefined / null of an optional string
NULL == "<null>"

\* JavaScript truthiness of an optional string: if(input.type), if(input.writer)
Truthy(s) == s # NULL /\ s # ""

RECURSIVE Rep(_, _)
\* the string of n copies of c
Rep(c, n) ==
  IF n = 0 THEN ""
  ELSE LET h == Rep(c, n \div 2) IN IF n % 2 = 1 THEN h \o h \o c ELSE h \o h

Min(a, b) == IF a <= b THEN a ELSE b

\* The User and Type tables (this resolver never writes them).
Users == {"u1", "u2"}
Types == {"t1", "t2"}

\* ctx.req.user as the authentication middleware leaves it: the id of a User,
\* or an id no User has (the account is gone, the token is not).
ReqUsers == Users \cup {"u9"}

\* The Draft table before any call (Drafts are written elsewhere).
Drafts0 ==
  { [id |-> "d1", title |-> "a", slug |-> "draft-1", body |-> "text",
     writer |-> "u1", type |-> "t1"],
    [id |-> "d2", title |-> "b", slug |-> "draft-2", body |-> NULL,
     writer |-> "u2", type |-> "t2"] }

\* the identifier of the n-th Post constructed
PostId(n) == "p" \o ToString(n)

----------------------------------------------------------------------------
\* Arguments the calls are made with

DraftIdArgs == {d.id : d \in Drafts0} \cup {"d9"}
PostIdArgs == {PostId(n) : n \in 1..MaxPosts} \cup {"p0"}
SlugArgs == {"s", Rep("z", SlugMax + 1)}
CreateFaults == {"none", "persist", "remove"}
DeleteFaults == {"none", "remove"}
UpdateFaults == {"none", "flush"}

ValidInputs ==
  { [title |-> "x", slug |-> Rep("z", SlugMax), body |-> "new", type |-> "t2"] }

InvalidInputs ==
  { [title |-> "", slug |-> Rep("z", SlugMax), body |-> NULL, type |-> "t1"],
    [title |-> Rep("y", TitleMax + 1), slug |-> "s", body |-> NULL, type |-> "t1"],
    [title |-> "x", slug |-> "", body |-> NULL, type |-> "t1"],
    [title |-> "x", slug |-> Rep("z", SlugMax + 1), body |-> NULL, type |-> "t1"] }

\* updatePost's calls: every acting user on every Post id with a valid input;
\* an invalid input is turned down before the handler reads its other arguments
UpdateCalls ==
  { [user |-> u, id |-> i, input |-> n] : u \in ReqUsers, i \in PostIdArgs, n \in ValidInputs }
  \cup { [user |-> "u1", id |-> PostId(1), input |-> n] : n \in InvalidInputs }

PostQueryInputs ==
  { [id |-> PostId(1), slug |-> NULL, title |-> NULL],
    [id |-> NULL, slug |-> "s", title |-> NULL],
    [id |-> NULL, slug |-> NULL, title |-> "a"],
    [id |-> NULL, slug |-> NULL, title |-> NULL] }

PostsQueryInputs ==
  { [type |-> t, writer |-> NULL] : t \in {NULL, "", "t1", "t9"} }
  \cup { [type |-> NULL, writer |-> w] : w \in {"", "u1", "u9"} }
  \cup { [type |-> "t1", writer |-> "u9"] }

----------------------------------------------------------------------------
\* The store's operations

\* repo(User).findOneOrFail({id}): the Users found (none: it throws)
FindUser(id) == {u \in Users : u = id}

\* repo(Type).findOneOrFail({id})
FindType(id) == {t \in Types : t = id}

\* repo(Draft).findOneOrFail({id})
FindDraft(ds, id) == {d \in ds : d.id = id}

\* repo(Post).findOneOrFail({id})
FindPost(ps, id) == {ps[i] : i \in {j \in DOMAIN ps : ps[j].id = id}}

\* repo(Post).persist(post).flush()
PersistPost(ps, post) == Append(ps, post)

\* repo(Draft).remove(draft).flush()
RemoveDraft(ds, draft) == {d \in ds : d.id # draft.id}

\* every Post of the writer removed
RemovePostsOfWriter(ps, post) == SelectSeq(ps, LAMBDA p : p.writer # post.writer)

\* repo(Post).remove(post).flush()
RemovePost(ps, post) == SelectSeq(ps, LAMBDA p : p.id # post.id)

\* em.flush() of a managed Post whose fields were assigned
FlushPost(ps, post) == [i \in DOMAIN ps |-> IF ps[i].id = post.id THEN post ELSE ps[i]]

\* new Post(draft): title, body, type and writer of the Draft under a fresh id
NewPost(draft, id) ==
  [id |-> id, title |-> draft.title, slug |-> draft.slug, body |-> draft.body,
   writer |-> draft.writer, type |-> draft.type]

----------------------------------------------------------------------------
\* The resolver's handlers, as functions of the store and the arguments.
\* A handler's result: out is "ok" or the error thrown, fault the store step
\* that threw ("none": none did), drafts and posts the tables after the call,
\* ret the Posts returned and flag the boolean returned.

Result(out, fault, ds, ps, ret, flag) ==
  [out |-> out, fault |-> fault, drafts |-> ds, posts |-> ps, ret |-> ret, flag |-> flag]

\* a handler that throws before it writes
Throw(err, ds, ps) == Result(err, "none", ds, ps, <<>>, FALSE)

\* the ownership check left out
NotWriterNever(entity, user) == FALSE

\* draft.writer !== user, user !== post.writer
NotWriter(entity, user) == entity.writer # user

\* the slug argument dropped: the Post keeps the Draft's slug
AssignSlugKept(post, slug) == post

\* post.slug = slug
AssignSlug(post, slug) == [post EXCEPT !.slug = slug]

\* the input's type assigned too
AssignInputAndType(post, input) ==
  [post EXCEPT !.title = input.title, !.slug = input.slug, !.body = input.body,
               !.type = input.type]

\* post.title = input.title; post.slug = input.slug; post.body = input.body
AssignInput(post, input) ==
  [post EXCEPT !.title = input.title, !.slug = input.slug, !.body = input.body]

\* @Length(1,255) title, @Length(1,20) slug of PostMutationInput
ValidInput(input) ==
  /\ Len(input.title) >= TitleMin /\ Len(input.title) <= TitleMax
  /\ Len(input.slug) >= SlugMin /\ Len(input.slug) <= SlugMax

\* the fields a PostQueryInput supplies all agree with the Post
MatchesQuery(p, input) ==
  /\ input.id # NULL => p.id = input.id
  /\ input.slug # NULL => p.slug = input.slug
  /\ input.title # NULL => p.title = input.title

\* the fields the filter holds all agree with the Post
MatchesFilter(p, filter) ==
  /\ filter.type # NULL => p.type = filter.type
  /\ filter.writer # NULL => p.writer = filter.writer

\* an argument with a defaultValue
ArgOr(arg, default) == IF arg = <<>> THEN default ELSE arg[1]

\* the offset dropped: the first limit matching rows
FindFromStart(ps, filter, limit, offset) ==
  LET m == SelectSeq(ps, LAMBDA p : MatchesFilter(p, filter))
  IN SubSeq(m, 1, Min(limit, Len(m)))

\* repo(Post).find(filter, {limit, offset}): rows offset+1 .. offset+limit of
\* the matching rows, in store order
Find(ps, filter, limit, offset) ==
  LET m == SelectSeq(ps, LAMBDA p : MatchesFilter(p, filter))
  IN SubSeq(m, offset + 1, Min(offset + limit, Len(m)))

\* query post(input)
post(ps, input) ==
  LET m == SelectSeq(ps, LAMBDA p : MatchesQuery(p, input))
  IN IF m = <<>> THEN <<>> ELSE <<Head(m)>>

\* query Posts(input, limit, offset)
Posts(ds, ps, input, limit, offset) ==
  IF Truthy(input.type) /\ FindType(input.type) = {}
  THEN Throw("UserInputError", ds, ps)
  ELSE IF Truthy(input.writer) /\ FindUser(input.writer) = {}
  THEN Throw("UserInputError", ds, ps)
  ELSE LET filter == [type |-> IF Truthy(input.type) THEN input.type ELSE NULL,
                      writer |-> IF Truthy(input.writer) THEN input.writer ELSE NULL]
       IN Result("ok", "none", ds, ps,
                 Find(ps, filter, ArgOr(limit, DefaultLimit), ArgOr(offset, DefaultOffset)),
                 FALSE)

\* createPost removing the Draft before it persists the Post
createPostRemoveFirst(ds, ps, id, reqUser, draft_id, slug, fault) ==
  IF FindUser(reqUser) = {} THEN Throw("AuthenticationError", ds, ps)
  ELSE IF FindDraft(ds, draft_id) = {} THEN Throw("UserInputError", ds, ps)
  ELSE LET user == CHOOSE u \in FindUser(reqUser) : TRUE
           draft == CHOOSE d \in FindDraft(ds, draft_id) : TRUE
           new == AssignSlug(NewPost(draft, id), slug)
       IN IF NotWriter(draft, user) THEN Throw("ForbiddenError", ds, ps)
          ELSE IF fault = "remove"
          THEN Result("UserInputError", "remove", ds, ps, <<>>, FALSE)
          ELSE IF fault = "persist"
          THEN Result("UserInputError", "persist", RemoveDraft(ds, draft), ps, <<>>, FALSE)
          ELSE Result("ok", "none", RemoveDraft(ds, draft), PersistPost(ps, new),
                      <<new>>, FALSE)

\* mutation createPost(draft_id, slug), the acting user being reqUser
createPost(ds, ps, id, reqUser, draft_id, slug, fault) ==
  IF FindUser(reqUser) = {} THEN Throw("AuthenticationError", ds, ps)
  ELSE IF FindDraft(ds, draft_id) = {} THEN Throw("UserInputError", ds, ps)
  ELSE LET user == CHOOSE u \in FindUser(reqUser) : TRUE
           draft == CHOOSE d \in FindDraft(ds, draft_id) : TRUE
           new == AssignSlug(NewPost(draft, id), slug)
       IN IF NotWriter(draft, user) THEN Throw("ForbiddenError", ds, ps)
          ELSE IF fault = "persist"
          THEN Result("UserInputError", "persist", ds, ps, <<>>, FALSE)
          ELSE IF fault = "remove"
          THEN Result("UserInputError", "remove", ds, PersistPost(ps, new), <<>>, FALSE)
          ELSE Result("ok", "none", RemoveDraft(ds, draft), PersistPost(ps, new),
                      <<new>>, FALSE)

\* mutation deletePost(id)
deletePost(ds, ps, reqUser, id, fault) ==
  IF FindUser(reqUser) = {} THEN Throw("AuthenticationError", ds, ps)
  ELSE IF FindPost(ps, id) = {} THEN Throw("UserInputError", ds, ps)
  ELSE LET user == CHOOSE u \in FindUser(reqUser) : TRUE
           found == CHOOSE p \in FindPost(ps, id) : TRUE
       IN IF NotWriter(found, user) THEN Throw("ForbiddenError", ds, ps)
          ELSE IF fault = "remove"
          THEN Result("StoreError", "remove", ds, ps, <<>>, FALSE)
          ELSE Result("ok", "none", ds, RemovePost(ps, found), <<>>, TRUE)

\* mutation updatePost(id, input)
updatePost(ds, ps, reqUser, id, input, fault) ==
  IF ~ValidInput(input) THEN Throw("ArgumentValidationError", ds, ps)
  ELSE IF FindUser(reqUser) = {} THEN Throw("AuthenticationError", ds, ps)
  ELSE IF FindPost(ps, id) = {} THEN Throw("UserInputError", ds, ps)
  ELSE LET user == CHOOSE u \in FindUser(reqUser) : TRUE
           found == CHOOSE p \in FindPost(ps, id) : TRUE
           new == AssignInput(found, input)
       IN IF NotWriter(found, user) THEN Throw("ForbiddenError", ds, ps)
          ELSE IF fault = "flush"
          THEN Result("UserInputError", "flush", ds, ps, <<>>, FALSE)
          ELSE Result("ok", "none", ds, FlushPost(ps, new), <<new>>, FALSE)

----------------------------------------------------------------------------
\* One request at a time: every call is one step.

Idle == [pc |-> "idle", user |-> NULL, draft_id |-> NULL, slug |-> NULL,
         draft |-> {}, post |-> <<>>, out |-> NULL]

Procs == {"r1", "r2"}

Call(op, user, id, args, r) ==
  [op |-> op, user |-> user, id |-> id, args |-> args,
   out |-> r.out, fault |-> r.fault, ret |-> r.ret, flag |-> r.flag]

Init ==
  /\ drafts = Drafts0
  /\ posts = <<>>
  /\ nextId = 1
  /\ origin = <<>>
  /\ deleted = {}
  /\ last = Call("none", NULL, NULL, NULL, Throw("ok", {}, <<>>))
  /\ reqs = [p \in Procs |-> Idle]

DoPost ==
  \E input \in PostQueryInputs :
    /\ last' = Call("post", NULL, NULL, input,
                    Result("ok", "none", drafts, posts, post(posts, input), FALSE))
    /\ UNCHANGED <<drafts, posts, nextId, origin, deleted, reqs>>

DoPosts(inputs, limits, offsets) ==
  \E input \in inputs, limit \in limits, offset \in offsets :
    /\ last' = Call("Posts", NULL, NULL,
                    [input |-> input, limit |-> limit, offset |-> offset],
                    Posts(drafts, posts, input, limit, offset))
    /\ UNCHANGED <<drafts, posts, nextId, origin, deleted, reqs>>

DoCreatePost ==
  \E reqUser \in ReqUsers, draft_id \in DraftIdArgs, slug \in SlugArgs, fault \in CreateFaults :
    /\ nextId <= MaxPosts
    /\ LET r == createPost(drafts, posts, PostId(nextId), reqUser, draft_id, slug, fault)
           made == Len(r.posts) > Len(posts)
       IN /\ r.fault = fault
          /\ drafts' = r.drafts
          /\ posts' = r.posts
          /\ nextId' = IF made THEN nextId + 1 ELSE nextId
          /\ origin' = IF made
                       THEN origin @@ (PostId(nextId) :>
                              CHOOSE d \in FindDraft(drafts, draft_id) : TRUE)
                       ELSE origin
          /\ last' = Call("createPost", reqUser, draft_id, slug, r)
    /\ UNCHANGED <<deleted, reqs>>

DoDeletePost ==
  \E reqUser \in ReqUsers, id \in PostIdArgs, fault \in DeleteFaults :
    LET r == deletePost(drafts, posts, reqUser, id, fault)
    IN /\ r.fault = fault
       /\ drafts' = r.drafts
       /\ posts' = r.posts
       /\ deleted' = IF r.out = "ok" THEN deleted \cup {id} ELSE deleted
       /\ last' = Call("deletePost", reqUser, id, NULL, r)
       /\ UNCHANGED <<nextId, origin, reqs>>

DoUpdatePost ==
  \E c \in UpdateCalls, fault \in UpdateFaults :
    LET r == updatePost(drafts, posts, c.user, c.id, c.input, fault)
    IN /\ r.fault = fault
       /\ drafts' = r.drafts
       /\ posts' = r.posts
       /\ last' = Call("updatePost", c.user, c.id, c.input, r)
       /\ UNCHANGED <<nextId, origin, deleted, reqs>>

Limits == {<<>>}
Offsets == {<<>>}

Next ==
  \/ DoPost
  \/ DoPosts(PostsQueryInputs, Limits, Offsets)
  \/ DoCreatePost
  \/ DoDeletePost
  \/ DoUpdatePost

Spec == Init /\ [][Next]_vars

----------------------------------------------------------------------------
\* Paging: the Posts query over Post tables of up to MaxListLen rows.

\* Row i of a Post table laid out by (tp, wp): every tp-th row has Type t2,
\* every wp-th row has writer u2, the other rows t1 and u1.
ListDraft(i, tp, wp) ==
  [id |-> "d" \o ToString(i), title |-> "a", slug |-> "s" \o ToString(i), body |-> NULL,
   writer |-> IF i % wp = 0 THEN "u2" ELSE "u1",
   type |-> IF i % tp = 0 THEN "t2" ELSE "t1"]

ListStore(n, tp, wp) == [i \in 1..n |-> NewPost(ListDraft(i, tp, wp), PostId(i))]

ListLayouts == {<<1, 1>>, <<2, 3>>, <<MaxListLen, 2>>, <<3, MaxListLen>>}

ListInputs ==
  { [type |-> t, writer |-> w] :
      t \in {NULL, "", "t1", "t2", "t9"}, w \in {NULL, "u2", "u9"} }
ListLimits == {<<>>, <<1>>, <<3>>, <<DefaultLimit + 1>>}
ListOffsets == {<<>>, <<0>>, <<2>>, <<DefaultLimit + 1>>}

InitList ==
  \E n \in 0..MaxListLen, l \in ListLayouts :
    /\ drafts = {}
    /\ posts = ListStore(n, l[1], l[2])
    /\ nextId = n + 1
    /\ origin = [id \in {PostId(i) : i \in 1..n} |->
                   CHOOSE d \in {ListDraft(i, l[1], l[2]) : i \in 1..n} :
                     NewPost(d, id) \in {posts[i] : i \in 1..n}]
    /\ deleted = {}
    /\ last = Call("none", NULL, NULL, NULL, Throw("ok", {}, <<>>))
    /\ reqs = [p \in Procs |-> Idle]

NextList == DoPosts(ListInputs, ListLimits, ListOffsets)

SpecList == InitList /\ [][NextList]_vars

----------------------------------------------------------------------------
\* Concurrent requests: createPost one store operation at a time.  The
\* handler yields at each await; between two of its steps the steps of the
\* other requests may run.

Req(p) == reqs[p]

Done(p, out) == reqs' = [reqs EXCEPT ![p].pc = "done", ![p].out = out]

\* a request for createPost(draft_id, slug) arrives, authenticated as reqUser
RCall(p) ==
  /\ Req(p).pc = "idle"
  /\ \E reqUser \in ReqUsers, draft_id \in DraftIdArgs, slug \in SlugArgs :
       reqs' = [reqs EXCEPT ![p].pc = "user", ![p].user = reqUser,
                            ![p].draft_id = draft_id, ![p].slug = slug]
  /\ UNCHANGED <<drafts, posts, nextId, origin, deleted, last>>

\* await repo(User).findOneOrFail({id: ctx.req.user})
RFindUser(p) ==
  /\ Req(p).pc = "user"
  /\ IF FindUser(Req(p).user) = {} THEN Done(p, "AuthenticationError")
     ELSE reqs' = [reqs EXCEPT ![p].pc = "draft"]
  /\ UNCHANGED <<drafts, posts, nextId, origin, deleted, last>>

\* await repo(Draft).findOneOrFail({id: draft_id})
RFindDraft(p) ==
  /\ Req(p).pc = "draft"
  /\ IF FindDraft(drafts, Req(p).draft_id) = {} THEN Done(p, "UserInputError")
     ELSE reqs' = [reqs EXCEPT ![p].pc = "check",
                               ![p].draft = FindDraft(drafts, Req(p).draft_id)]
  /\ UNCHANGED <<drafts, posts, nextId, origin, deleted, last>>

\* if(draft.writer!==user) throw new ForbiddenError(...)
RCheck(p) ==
  /\ Req(p).pc = "check"
  /\ IF \E d \in Req(p).draft : NotWriter(d, Req(p).user) THEN Done(p, "ForbiddenError")
     ELSE reqs' = [reqs EXCEPT ![p].pc = "persist"]
  /\ UNCHANGED <<drafts, posts, nextId, origin, deleted, last>>

\* RPersist re-reading the Draft: it throws when the Draft is gone
RPersistIfDraft(p) ==
  /\ Req(p).pc = "persist"
  /\ nextId <= MaxPosts
  /\ Req(p).draft \subseteq drafts
  /\ \E d \in Req(p).draft :
       LET new == AssignSlug(NewPost(d, PostId(nextId)), Req(p).slug)
       IN /\ posts' = PersistPost(posts, new)
          /\ origin' = origin @@ (new.id :> d)
          /\ reqs' = [reqs EXCEPT ![p].pc = "remove", ![p].post = <<new>>]
  /\ nextId' = nextId + 1
  /\ UNCHANGED <<drafts, deleted, last>>

\* const post = new Post(draft); post.slug = slug;
\* await repo(Post).persist(post).flush()
RPersist(p) ==
  /\ Req(p).pc = "persist"
  /\ nextId <= MaxPosts
  /\ \E d \in Req(p).draft :
       LET new == AssignSlug(NewPost(d, PostId(nextId)), Req(p).slug)
       IN /\ posts' = PersistPost(posts, new)
          /\ origin' = origin @@ (new.id :> d)
          /\ reqs' = [reqs EXCEPT ![p].pc = "remove", ![p].post = <<new>>]
  /\ nextId' = nextId + 1
  /\ UNCHANGED <<drafts, deleted, last>>

\* the persist throws: catch(err) { throw new UserInputError(err) }
RPersistThrows(p) ==
  /\ Req(p).pc = "persist"
  /\ Done(p, "UserInputError")
  /\ UNCHANGED <<drafts, posts, nextId, origin, deleted, last>>

\* await repo(Draft).remove(draft).flush(); return post
RRemove(p) ==
  /\ Req(p).pc = "remove"
  /\ \E d \in Req(p).draft : drafts' = RemoveDraft(drafts, d)
  /\ Done(p, "ok")
  /\ UNCHANGED <<posts, nextId, origin, deleted, last>>

\* the removal throws: catch(err) { throw new UserInputError(err) }
RRemoveThrows(p) ==
  /\ Req(p).pc = "remove"
  /\ Done(p, "UserInputError")
  /\ UNCHANGED <<drafts, posts, nextId, origin, deleted, last>>

NextRace ==
  \E p \in Procs :
    \/ RCall(p)
    \/ RFindUser(p)
    \/ RFindDraft(p)
    \/ RCheck(p)
    \/ RPersist(p)
    \/ RPersistThrows(p)
    \/ RRemove(p)
    \/ RRemoveThrows(p)

SpecRace == Init /\ [][NextRace]_vars

----------------------------------------------------------------------------
\* Vocabulary of the properties

TypedErrors == {"AuthenticationError", "UserInputError", "ForbiddenError"}

PostIdsOf(ps) == {ps[i].id : i \in DOMAIN ps}

\* the Drafts with this id whose writer is / is not the user
DraftsOwned(id, user) == {d \in drafts : d.id = id /\ d.writer = user}
DraftsOfOthers(id, user) == {d \in drafts : d.id = id /\ d.writer # user}

\* the Posts with this id whose writer is / is not the user
PostsOwned(id, user) == {q \in FindPost(posts, id) : q.writer = user}
PostsOfOthers(id, user) == {q \in FindPost(posts, id) : q.writer # user}

\* the step is a call of op
Called(op) == last'.op = op

\* the store is left as it was
StoreUnchanged == drafts' = drafts /\ posts' = posts

----------------------------------------------------------------------------
PromotedFrom(d) ==
  /\ last'.out = "ok"
  /\ Len(last'.ret) = 1
  /\ last'.ret[1].id \notin PostIdsOf(posts)
  /\ \E i \in DOMAIN posts' : posts'[i] = last'.ret[1]
  /\ last'.ret[1].title = d.title /\ last'.ret[1].body = d.body
  /\ last'.ret[1].type = d.type /\ last'.ret[1].writer = d.writer
  /\ last'.ret[1].slug = last'.args
  /\ FindDraft(drafts', d.id) = {}

\* C1 (as stated): for every Draft D whose writer is U and every slug s,
\* createPost(D.id, s) called with U acting succeeds; afterwards a new Post with
\* D's title, body, type and writer and with slug s exists, and D is gone.
C1_Original ==
  [][Called("createPost") =>
       \A d \in DraftsOwned(last'.id, last'.user) : PromotedFrom(d)]_vars

\* C1 (amended): the same when neither persisting the Post nor removing the
\* Draft throws; when one of them throws the call fails with UserInputError.
C1_Amended ==
  [][Called("createPost") =>
       \A d \in DraftsOwned(last'.id, last'.user) :
         IF last'.fault = "none" THEN PromotedFrom(d)
         ELSE last'.out = "UserInputError"]_vars

C1_Witness ==
  /\ last.op = "createPost" /\ last.out = "ok"
  /\ Len(last.args) > SlugMax
  /\ \E i \in DOMAIN posts : posts[i] = last.ret[1] /\ posts[i].slug = last.args
  /\ FindDraft(drafts, last.id) = {}

----------------------------------------------------------------------------
\* C2: a resolvable acting user who is not the writer gets ForbiddenError from
\* createPost on an existing Draft and from updatePost (called with an input
\* that passed validation) and deletePost on an existing Post, and the Draft
\* table and the Post table are left as they were.
C2_Ownership ==
  [][/\ (Called("createPost") /\ last'.user \in Users
           /\ DraftsOfOthers(last'.id, last'.user) # {})
        => (last'.out = "ForbiddenError" /\ StoreUnchanged)
     /\ (Called("deletePost") /\ last'.user \in Users
           /\ PostsOfOthers(last'.id, last'.user) # {})
        => (last'.out = "ForbiddenError" /\ StoreUnchanged)
     /\ (Called("updatePost") /\ last'.user \in Users /\ ValidInput(last'.args)
           /\ PostsOfOthers(last'.id, last'.user) # {})
        => (last'.out = "ForbiddenError" /\ StoreUnchanged)]_vars

C2_Witness ==
  /\ last.op = "updatePost" /\ last.out = "ForbiddenError"
  /\ last.user \in Users
  /\ PostsOfOthers(last.id, last.user) # {}
  /\ \A q \in FindPost(posts, last.id) : q.title # last.args.title

----------------------------------------------------------------------------
WriterOfOrigin ==
  \A i \in DOMAIN posts :
    /\ posts[i].id \in DOMAIN origin
    /\ posts[i].writer = origin[posts[i].id].writer

UpdateFrame ==
  /\ drafts' = drafts
  /\ DOMAIN posts' = DOMAIN posts
  /\ \A i \in DOMAIN posts :
       /\ posts[i].id # last'.id => posts'[i] = posts[i]
       /\ posts'[i].id = posts[i].id
       /\ posts'[i].writer = posts[i].writer
       /\ posts'[i].type = posts[i].type

\* C3: every Post's writer is the writer of the Draft it was constructed from,
\* and a call of updatePost leaves the Draft table, every other Post, and the
\* id, writer and type of the Post it names as they were.
C3_WriterAndFrame == [](WriterOfOrigin) /\ [][Called("updatePost") => UpdateFrame]_vars

C3_Witness ==
  /\ last.op = "updatePost" /\ last.out = "ok"
  /\ Len(posts) >= 2
  /\ \E i \in DOMAIN posts :
       /\ posts[i].id = last.id
       /\ posts[i].title = last.args.title
       /\ posts[i].type # last.args.type
       /\ posts[i].writer = origin[posts[i].id].writer

----------------------------------------------------------------------------
GivenButUnknown(id, found) == id # NULL /\ found = {}

\* C4 (as stated): an identifier that names no entity makes the call fail with
\* UserInputError and change nothing: Posts with such a type or writer
\* identifier, and (the acting user being resolvable) createPost with such a
\* draft id, updatePost (its input valid) and deletePost with such a Post id.
C4_Original ==
  [][/\ (Called("Posts")
           /\ \/ GivenButUnknown(last'.args.input.type, FindType(last'.args.input.type))
              \/ GivenButUnknown(last'.args.input.writer,
                                 FindUser(last'.args.input.writer)))
        => (last'.out = "UserInputError" /\ StoreUnchanged)
     /\ (Called("createPost") /\ last'.user \in Users
           /\ FindDraft(drafts, last'.id) = {})
        => (last'.out = "UserInputError" /\ StoreUnchanged)
     /\ (Called("deletePost") /\ last'.user \in Users
           /\ FindPost(posts, last'.id) = {})
        => (last'.out = "UserInputError" /\ StoreUnchanged)
     /\ (Called("updatePost") /\ last'.user \in Users /\ ValidInput(last'.args)
           /\ FindPost(posts, last'.id) = {})
        => (last'.out = "UserInputError" /\ StoreUnchanged)]_vars

----------------------------------------------------------------------------
RemovedOnly(q) ==
  /\ last'.out = "ok" /\ last'.flag = TRUE
  /\ drafts' = drafts
  /\ posts' = SelectSeq(posts, LAMBDA x : x # q)
  /\ q.id \notin PostIdsOf(posts')

\* C5 (as stated): deletePost(id) called by the writer of an existing Post
\* returns true and removes that Post and nothing else.
C5_Original ==
  [][Called("deletePost") =>
       \A q \in PostsOwned(last'.id, last'.user) : RemovedOnly(q)]_vars

GoneForGood ==
  \A id \in deleted :
    /\ post(posts, [id |-> id, slug |-> NULL, title |-> NULL]) = <<>>
    /\ FindDraft(drafts, id) = {}

\* C5 (amended): deletePost(id) called by the writer of an existing Post, when
\* the removal does not throw, returns true and removes that Post and nothing
\* else (when it throws, nothing is removed); from then on post({id}) returns
\* null, no Draft has that id, and no step adds a Draft.
C5_Amended ==
  /\ [](GoneForGood)
  /\ [][/\ drafts' \subseteq drafts
        /\ Called("deletePost") =>
             \A q \in PostsOwned(last'.id, last'.user) :
               IF last'.fault = "none" THEN RemovedOnly(q)
               ELSE last'.out # "ok" /\ StoreUnchanged]_vars

C5_Witness ==
  /\ last.op = "deletePost" /\ last.out = "ok" /\ last.flag
  /\ last.id \in deleted
  /\ Len(posts) >= 1
  /\ post(posts, [id |-> last.id, slug |-> NULL, title |-> NULL]) = <<>>

----------------------------------------------------------------------------
\* C7 (as stated): every Post in the store has a title of 1..255 characters
\* and a slug of 1..20 characters (createPost and updatePost turn down any
\* other title or slug before they write).
C7_Original ==
  \A i \in DOMAIN posts :
    /\ Len(posts[i].title) >= TitleMin /\ Len(posts[i].title) <= TitleMax
    /\ Len(posts[i].slug) >= SlugMin /\ Len(posts[i].slug) <= SlugMax

----------------------------------------------------------------------------
\* C8 (as stated): a call that the handler fails throws AuthenticationError,
\* UserInputError or ForbiddenError, and a store step that throws is reported
\* as UserInputError.
C8_Original ==
  /\ last.out \notin {"ok", "ArgumentValidationError"} => last.out \in TypedErrors
  /\ last.fault # "none" => last.out = "UserInputError"

----------------------------------------------------------------------------
\* C9: when persisting the Post throws, createPost fails with UserInputError
\* and leaves the Draft table and the Post table as they were; and a call of
\* createPost that removes a Draft has appended the Post constructed from it.
C9_PersistBeforeRemove ==
  [][Called("createPost") =>
       /\ last'.fault = "persist" =>
            (last'.out = "UserInputError" /\ StoreUnchanged /\ origin' = origin)
       /\ drafts' # drafts =>
            /\ Len(posts') = Len(posts) + 1
            /\ SubSeq(posts', 1, Len(posts)) = posts
            /\ origin'[posts'[Len(posts')].id] \in drafts \ drafts']_vars

C9_Witness ==
  /\ last.op = "createPost" /\ last.fault = "persist" /\ last.out = "UserInputError"
  /\ DraftsOwned(last.id, last.user) # {}
  /\ posts = <<>>

----------------------------------------------------------------------------
Matching(input) ==
  {i \in DOMAIN posts :
     /\ input.type # NULL => posts[i].type = input.type
     /\ input.writer # NULL => posts[i].writer = input.writer}

\* the i-th row is the k-th of the rows in M
IsKth(M, i, k) == i \in M /\ Cardinality({j \in M : j < i}) = k - 1

\* C6: a successful Posts(input, limit, offset) whose filter fields are absent
\* or name a Type / a User returns rows offset+1 .. offset+limit (limit 10 and
\* offset 0 when not given) of the Posts that have the given Type and the
\* given writer, in store order: never another Post, never more than limit.
C6_Page ==
  (/\ last.op = "Posts"
   /\ last.args.input.type \in Types \cup {NULL}
   /\ last.args.input.writer \in Users \cup {NULL})
  => LET M == Matching(last.args.input)
         limit == IF last.args.limit = <<>> THEN 10 ELSE last.args.limit[1]
         offset == IF last.args.offset = <<>> THEN 0 ELSE last.args.offset[1]
         rest == IF Cardinality(M) > offset THEN Cardinality(M) - offset ELSE 0
     IN /\ last.out = "ok"
        /\ Len(last.ret) <= limit
        /\ Len(last.ret) = IF rest < limit THEN rest ELSE limit
        /\ \A k \in DOMAIN last.ret :
             \E i \in M : IsKth(M, i, offset + k) /\ last.ret[k] = posts[i]

C6_Witness ==
  /\ last.op = "Posts" /\ last.out = "ok"
  /\ last.args.input = [type |-> "t1", writer |-> NULL]
  /\ last.args.limit = <<>> /\ last.args.offset = <<>>
  /\ Cardinality(Matching(last.args.input)) > 10
  /\ \E i \in DOMAIN posts : posts[i].type = "t2"
  /\ Len(last.ret) = 10
  /\ \A k \in DOMAIN last.ret : last.ret[k].type = "t1"

----------------------------------------------------------------------------
====
